---- MODULE Spec2Model ----
(***************************************************************************)
(* Model of lru::LRUCache<Key, Value> (include/lru_cache/lru_cache.hpp).   *)
(*                                                                         *)
(* The cache is a std::list of (key, value) pairs, ordered from most to    *)
(* least recently used, and a std::unordered_map from key to the list      *)
(* iterator of the key's node.  A list node carries a name (field it) that  *)
(* it keeps for its lifetime, so that an iterator is a node name and        *)
(* splice, erase and pop_back keep or end the validity of exactly the       *)
(* iterators that std::list says they do.                                   *)
(***************************************************************************)
EXTENDS Integers, Sequences, FiniteSets, TLC

\* ---- bounds of the model -------------------------------------------------
MaxCap == 3
NumKeys == 4
NumVals == 2

Keys == 1..NumKeys
Values == 1..NumVals
Capacities == 1..MaxCap
\* names of list nodes: what an iterator holds.  The code never compares or
\* shows a node's address, so a node is named after the key it is constructed
\* with; the spare name serves when a node of that key is still linked.
Handles == 1..(NumKeys + 1)

\* std::optional<Value>: empty, or holding one value
nullopt == <<>>
Some(v) == <<v>>
has_value(o) == o # nullopt

VARIABLES
    capacity_,  \* std::size_t capacity_
    items_,     \* ListType items_: sequence of nodes, front = most recent
    lookup_,    \* MapType lookup_: key -> iterator (node name)
    ub,         \* an operation dereferenced an invalid iterator
    last,       \* the call that has just returned: operation, arguments,
                \* returned value (NoCall once the caller has moved on)
    pre,        \* the data members as they were when the last call started
    ref,        \* reference cache: key -> value and stamp of the last touch
    refRet,     \* what the reference cache returned for the last call
    scen,       \* position in the fill / get oldest / put new scenario
    obj,        \* the instance: "none" before its construction, "live", or
                \* "invalid_argument" when its constructor has thrown
    other,      \* a second instance, made as a copy of this one or on its own
    pc          \* position inside a put that is taken statement by statement

vars == <<capacity_, items_, lookup_, ub, last, pre, ref, refRet, scen,
          obj, other, pc>>

\* what the member functions called on this instance leave alone
env == <<obj, other, pc>>

\* ---- std::list and std::unordered_map -----------------------------------

SeqKeys(items) == {items[i].first : i \in DOMAIN items}
LiveIts(items) == {items[i].it : i \in DOMAIN items}

\* it refers to a node of items (the iterator is dereferenceable)
ValidIt(items, it) == it \in LiveIts(items)

\* position of the node an iterator refers to
PosOf(items, it) == CHOOSE i \in DOMAIN items : items[i].it = it

\* the sequence without its element at position p
RemoveAt(s, p) == [i \in 1..(Len(s) - 1) |-> IF i < p THEN s[i] ELSE s[i + 1]]

\* lookup_.find(key) != lookup_.end()
Found(lookup, key) == key \in DOMAIN lookup

\* lookup_.erase(key) / lookup_.erase(it)
MapErase(lookup, key) == [k \in DOMAIN lookup \ {key} |-> lookup[k]]

\* lookup_[key] = it
MapSet(lookup, key, it) ==
    [k \in DOMAIN lookup \cup {key} |-> IF k = key THEN it ELSE lookup[k]]

EmptyMap == [k \in {} |-> 0]

\* ---- LRUCache member functions ------------------------------------------

\* a splice that leaves the node where it is
move_to_front_nowhere(items, it) == items

\* a move that erases the node and builds a new one at the front, leaving the
\* index with the position of the erased node
move_to_front_reinsert(items, it) ==
    LET p == PosOf(items, it)
        fresh == CHOOSE h \in Handles : h \notin LiveIts(items)
    IN  <<[items[p] EXCEPT !.it = fresh]>> \o RemoveAt(items, p)

\* items_.splice(items_.begin(), items_, it): relinks one node to the front,
\* every node keeps its name
move_to_front(items, it) ==
    LET p == PosOf(items, it)
    IN  <<items[p]>> \o RemoveAt(items, p)

\* it->second->second = std::forward<Value>(value)
assign_value(items, it, value) ==
    [i \in DOMAIN items |->
        IF items[i].it = it THEN [items[i] EXCEPT !.second = value]
        ELSE items[i]]

\* the eviction test off by one: items_.size() > capacity_
at_capacity_off_by_one(items, cap) == Len(items) > cap

\* the eviction test one entry early: items_.size() + 1 >= capacity_, for a
\* cache that holds something
at_capacity_early(items, cap) == Len(items) >= 1 /\ Len(items) + 1 >= cap

\* items_.size() >= capacity_
at_capacity(items, cap) == Len(items) >= cap

\* an eviction that takes the front (most recently used) node
evict_mru(items, lookup) ==
    LET mru == items[1]
    IN  [items_  |-> SubSeq(items, 2, Len(items)),
         lookup_ |-> MapErase(lookup, mru.first)]

\* an eviction that pops the back node and leaves its key in the index
evict_keep_index(items, lookup) ==
    [items_  |-> SubSeq(items, 1, Len(items) - 1),
     lookup_ |-> lookup]

\* an eviction that takes the node before the back one when there are two
evict_next_to_last(items, lookup) ==
    LET p == IF Len(items) >= 2 THEN Len(items) - 1 ELSE Len(items)
    IN  [items_  |-> RemoveAt(items, p),
         lookup_ |-> MapErase(lookup, items[p].first)]

\* auto& lru = items_.back(); lookup_.erase(lru.first); items_.pop_back();
evict_lru(items, lookup) ==
    LET lru == items[Len(items)]
    IN  [items_  |-> SubSeq(items, 1, Len(items) - 1),
         lookup_ |-> MapErase(lookup, lru.first)]

\* an insertion at the back of the sequence
insert_back(items, lookup, key, value, addr) ==
    [items_  |-> items \o <<[it |-> addr, first |-> key, second |-> value]>>,
     lookup_ |-> MapSet(lookup, key, addr)]

\* items_.emplace_front(key, value); lookup_[key] = items_.begin();
\* addr is the name of the new node
insert_front(items, lookup, key, value, addr) ==
    [items_  |-> <<[it |-> addr, first |-> key, second |-> value]>> \o items,
     lookup_ |-> MapSet(lookup, key, addr)]

\* names the new node of key can get: the key's own, or one of no live node
FreeAddrs(items, key) ==
    IF key \notin LiveIts(items) THEN {key} ELSE Handles \ LiveIts(items)

\* a get that returns the value without the move to the front
get_no_touch(items, lookup, key) ==
    IF ~Found(lookup, key)
    THEN [items_ |-> items, lookup_ |-> lookup, ret |-> nullopt, ub |-> FALSE]
    ELSE IF ~ValidIt(items, lookup[key])
    THEN [items_ |-> items, lookup_ |-> lookup, ret |-> nullopt, ub |-> TRUE]
    ELSE [items_ |-> items, lookup_ |-> lookup,
          ret |-> Some(items[PosOf(items, lookup[key])].second), ub |-> FALSE]

\* a get that reads items_.front().second before the move to the front
get_front_first(items, lookup, key) ==
    IF ~Found(lookup, key)
    THEN [items_ |-> items, lookup_ |-> lookup, ret |-> nullopt, ub |-> FALSE]
    ELSE IF ~ValidIt(items, lookup[key])
    THEN [items_ |-> items, lookup_ |-> lookup, ret |-> nullopt, ub |-> TRUE]
    ELSE [items_ |-> move_to_front(items, lookup[key]), lookup_ |-> lookup,
          ret |-> Some(items[1].second), ub |-> FALSE]

\* a get that looks the key up with lookup_[key], which inserts an absent
\* key with a singular iterator (node name 0)
get_inserting(items, lookup, key) ==
    IF ~Found(lookup, key)
    THEN [items_ |-> items, lookup_ |-> MapSet(lookup, key, 0),
          ret |-> nullopt, ub |-> FALSE]
    ELSE IF ~ValidIt(items, lookup[key])
    THEN [items_ |-> items, lookup_ |-> lookup, ret |-> nullopt, ub |-> TRUE]
    ELSE LET moved == move_to_front(items, lookup[key])
         IN  [items_ |-> moved, lookup_ |-> lookup,
              ret |-> Some(moved[1].second), ub |-> FALSE]

\* LRUCache::get: the state after the call and the returned optional
get(items, lookup, key) ==
    IF ~Found(lookup, key)
    THEN [items_ |-> items, lookup_ |-> lookup, ret |-> nullopt, ub |-> FALSE]
    ELSE IF ~ValidIt(items, lookup[key])
    THEN [items_ |-> items, lookup_ |-> lookup, ret |-> nullopt, ub |-> TRUE]
    ELSE LET moved == move_to_front(items, lookup[key])
         IN  [items_ |-> moved, lookup_ |-> lookup,
              ret |-> Some(moved[1].second), ub |-> FALSE]

\* an update that assigns the value and leaves the node where it is
put_existing_no_move(items, lookup, key, value) ==
    IF ~ValidIt(items, lookup[key])
    THEN [items_ |-> items, lookup_ |-> lookup, ub |-> TRUE]
    ELSE [items_ |-> assign_value(items, lookup[key], value),
          lookup_ |-> lookup, ub |-> FALSE]

\* LRUCache::put, the branch for a key the index holds
put_existing(items, lookup, key, value) ==
    IF ~ValidIt(items, lookup[key])
    THEN [items_ |-> items, lookup_ |-> lookup, ub |-> TRUE]
    ELSE [items_ |-> move_to_front(assign_value(items, lookup[key], value),
                                   lookup[key]),
          lookup_ |-> lookup, ub |-> FALSE]

\* LRUCache::put, the branch for a key the index does not hold, up to the
\* insertion: the eviction when the cache is full
put_make_room(cap, items, lookup) ==
    IF at_capacity(items, cap)
    THEN IF Len(items) = 0
         THEN [items_ |-> items, lookup_ |-> lookup, ub |-> TRUE]
         ELSE evict_lru(items, lookup) @@ [ub |-> FALSE]
    ELSE [items_ |-> items, lookup_ |-> lookup, ub |-> FALSE]

\* LRUCache::contains
contains(lookup, key) == Found(lookup, key)

\* LRUCache::size / empty / capacity
size(items) == Len(items)
empty(items) == Len(items) = 0
capacity(cap) == cap

\* an erase that removes the node and leaves the key in the index
erase_keep_index(items, lookup, key) ==
    IF ~Found(lookup, key)
    THEN [items_ |-> items, lookup_ |-> lookup, ret |-> FALSE, ub |-> FALSE]
    ELSE IF ~ValidIt(items, lookup[key])
    THEN [items_ |-> items, lookup_ |-> lookup, ret |-> FALSE, ub |-> TRUE]
    ELSE [items_  |-> RemoveAt(items, PosOf(items, lookup[key])),
          lookup_ |-> lookup,
          ret |-> TRUE, ub |-> FALSE]

\* an erase that removes the key from the index and leaves the node
erase_keep_node(items, lookup, key) ==
    IF ~Found(lookup, key)
    THEN [items_ |-> items, lookup_ |-> lookup, ret |-> FALSE, ub |-> FALSE]
    ELSE [items_  |-> items,
          lookup_ |-> MapErase(lookup, key),
          ret |-> TRUE, ub |-> FALSE]

\* LRUCache::erase
erase(items, lookup, key) ==
    IF ~Found(lookup, key)
    THEN [items_ |-> items, lookup_ |-> lookup, ret |-> FALSE, ub |-> FALSE]
    ELSE IF ~ValidIt(items, lookup[key])
    THEN [items_ |-> items, lookup_ |-> lookup, ret |-> FALSE, ub |-> TRUE]
    ELSE [items_  |-> RemoveAt(items, PosOf(items, lookup[key])),
          lookup_ |-> MapErase(lookup, key),
          ret |-> TRUE, ub |-> FALSE]

\* a clear that empties the sequence and leaves the index as it was
clear_keep_index(items, lookup) == [items_ |-> <<>>, lookup_ |-> lookup]

\* LRUCache::clear
clear(items, lookup) == [items_ |-> <<>>, lookup_ |-> EmptyMap]

\* a constructor without the check of its argument
LRUCache_unchecked(cap) ==
    [threw |-> FALSE,
     capacity_ |-> cap, items_ |-> <<>>, lookup_ |-> EmptyMap]

\* the constructor: the member initialisers run, then a capacity of 0 throws
\* std::invalid_argument and no object comes to exist
LRUCache(cap) ==
    [threw |-> cap = 0,
     capacity_ |-> cap, items_ |-> <<>>, lookup_ |-> EmptyMap]

\* ---- the reference cache: last-touch stamps, evict the minimum ----------
\* Every key it holds carries the value of the latest put of the key and the
\* stamp of its last touch (a put, or a get that found the key).  Only the
\* order of the stamps matters, so after every call they are renumbered
\* 1..n in the same order, and a touch stamps with a time later than all.

RefNow(r) == Cardinality(DOMAIN r) + 1

RefRenumber(r) ==
    [k \in DOMAIN r |->
        [r[k] EXCEPT !.stamp =
            Cardinality({j \in DOMAIN r : r[j].stamp <= r[k].stamp})]]

RefGet(r, key) ==
    IF key \in DOMAIN r
    THEN [ref |-> RefRenumber([r EXCEPT ![key].stamp = RefNow(r)]),
          ret |-> Some(r[key].val)]
    ELSE [ref |-> r, ret |-> nullopt]

RefOldest(r) ==
    CHOOSE k \in DOMAIN r : \A j \in DOMAIN r : r[k].stamp <= r[j].stamp

RefPut(r, cap, key, value) ==
    LET kept == IF key \in DOMAIN r \/ Cardinality(DOMAIN r) < cap
                THEN DOMAIN r
                ELSE DOMAIN r \ {RefOldest(r)}
    IN  RefRenumber([k \in kept \cup {key} |->
            IF k = key THEN [val |-> value, stamp |-> RefNow(r)] ELSE r[k]])

RefErase(r, key) ==
    [ref |-> RefRenumber([k \in DOMAIN r \ {key} |-> r[k]]),
     ret |-> key \in DOMAIN r]

\* ---- the scenario of the tests EvictsLRU and GetUpdatesRecency ----------
\* stage "fill": only puts of distinct absent keys since the cache was empty,
\* oldest is the first of them (0 while the cache is still empty);
\* "got": the cache was filled to capacity, then get(oldest) was called;
\* "promoted": ... then one new key was put;
\* "overflow": the cache was filled to capacity, then one new key was put.
ScenOff == [stage |-> "off", oldest |-> 0]
ScenStart == [stage |-> "fill", oldest |-> 0]

ScenPut(s, items, lookup, cap, key) ==
    IF Found(lookup, key) THEN ScenOff
    ELSE IF s.stage = "fill" /\ Len(items) < cap
    THEN [stage |-> "fill", oldest |-> IF s.oldest = 0 THEN key ELSE s.oldest]
    ELSE IF s.stage = "fill"
    THEN [s EXCEPT !.stage = "overflow"]
    ELSE IF s.stage = "got"
    THEN [s EXCEPT !.stage = "promoted"]
    ELSE ScenOff

ScenGet(s, items, cap, key) ==
    IF s.stage = "fill" /\ Len(items) = cap /\ key = s.oldest
    THEN [s EXCEPT !.stage = "got"]
    ELSE ScenOff

\* ---- the state machine ---------------------------------------------------

\* the data members as a call finds them
Snapshot == [capacity_ |-> capacity_, items_ |-> items_, lookup_ |-> lookup_]
NoSnapshot == [capacity_ |-> 0, items_ |-> <<>>, lookup_ |-> EmptyMap]

\* no call is under observation: the caller is between two calls
NoCall == [op |-> "none", key |-> 0, value |-> 0, ret |-> 0]

\* no second instance
NoOther == [state |-> "none", arg |-> 0,
            capacity_ |-> 0, items_ |-> <<>>, lookup_ |-> EmptyMap]

\* the caller can make its next call on the instance
Ready == obj = "live" /\ ~ub /\ last.op = "none" /\ pc = "idle"

\* LRUCache::LRUCache(capacity), capacity >= 1
Init ==
    /\ capacity_ \in Capacities
    /\ items_ = <<>>
    /\ lookup_ = EmptyMap
    /\ ub = FALSE
    /\ last = [op |-> "ctor", key |-> 0, value |-> capacity_, ret |-> 0]
    /\ pre = NoSnapshot
    /\ ref = EmptyMap
    /\ refRet = 0
    /\ scen = ScenStart
    /\ obj = "live"
    /\ other = NoOther
    /\ pc = "idle"

Get(key) ==
    /\ Ready
    /\ LET r == get(items_, lookup_, key)
           g == RefGet(ref, key)
       IN  /\ items_' = r.items_
           /\ lookup_' = r.lookup_
           /\ ub' = r.ub
           /\ last' = [op |-> "get", key |-> key, value |-> 0, ret |-> r.ret]
           /\ ref' = g.ref
           /\ refRet' = g.ret
    /\ pre' = Snapshot
    /\ scen' = ScenGet(scen, items_, capacity_, key)
    /\ UNCHANGED capacity_
    /\ UNCHANGED env

Put(key, value) ==
    /\ Ready
    /\ IF Found(lookup_, key)
       THEN LET r == put_existing(items_, lookup_, key, value)
            IN  /\ items_' = r.items_
                /\ lookup_' = r.lookup_
                /\ ub' = r.ub
       ELSE LET m == put_make_room(capacity_, items_, lookup_)
            IN  IF m.ub
                THEN /\ items_' = m.items_
                     /\ lookup_' = m.lookup_
                     /\ ub' = TRUE
                ELSE \E addr \in FreeAddrs(m.items_, key) :
                        LET r == insert_front(m.items_, m.lookup_, key, value, addr)
                        IN  /\ items_' = r.items_
                            /\ lookup_' = r.lookup_
                            /\ ub' = FALSE
    /\ last' = [op |-> "put", key |-> key, value |-> value, ret |-> 0]
    /\ pre' = Snapshot
    /\ ref' = RefPut(ref, capacity_, key, value)
    /\ refRet' = 0
    /\ scen' = ScenPut(scen, items_, lookup_, capacity_, key)
    /\ UNCHANGED capacity_
    /\ UNCHANGED env

\* a contains that touches: it moves a present key to the front, as get does
ContainsTouching(key) ==
    /\ Ready
    /\ LET r == get(items_, lookup_, key)
       IN  /\ items_' = r.items_
           /\ lookup_' = r.lookup_
           /\ ub' = r.ub
    /\ last' = [op |-> "contains", key |-> key, value |-> 0,
                ret |-> contains(lookup_, key)]
    /\ pre' = Snapshot
    /\ refRet' = (key \in DOMAIN ref)
    /\ scen' = ScenOff
    /\ UNCHANGED <<capacity_, ref>>
    /\ UNCHANGED env

Contains(key) ==
    /\ Ready
    /\ last' = [op |-> "contains", key |-> key, value |-> 0,
                ret |-> contains(lookup_, key)]
    /\ pre' = Snapshot
    /\ refRet' = (key \in DOMAIN ref)
    /\ scen' = ScenOff
    /\ UNCHANGED <<capacity_, items_, lookup_, ub, ref>>
    /\ UNCHANGED env

Size ==
    /\ Ready
    /\ last' = [op |-> "size", key |-> 0, value |-> 0, ret |-> size(items_)]
    /\ pre' = Snapshot
    /\ refRet' = Cardinality(DOMAIN ref)
    /\ scen' = ScenOff
    /\ UNCHANGED <<capacity_, items_, lookup_, ub, ref>>
    /\ UNCHANGED env

Empty ==
    /\ Ready
    /\ last' = [op |-> "empty", key |-> 0, value |-> 0, ret |-> empty(items_)]
    /\ pre' = Snapshot
    /\ refRet' = (DOMAIN ref = {})
    /\ scen' = ScenOff
    /\ UNCHANGED <<capacity_, items_, lookup_, ub, ref>>
    /\ UNCHANGED env

Capacity ==
    /\ Ready
    /\ last' = [op |-> "capacity", key |-> 0, value |-> 0,
                ret |-> capacity(capacity_)]
    /\ pre' = Snapshot
    /\ refRet' = capacity_
    /\ scen' = ScenOff
    /\ UNCHANGED <<capacity_, items_, lookup_, ub, ref>>
    /\ UNCHANGED env

Erase(key) ==
    /\ Ready
    /\ LET r == erase(items_, lookup_, key)
           e == RefErase(ref, key)
       IN  /\ items_' = r.items_
           /\ lookup_' = r.lookup_
           /\ ub' = r.ub
           /\ last' = [op |-> "erase", key |-> key, value |-> 0, ret |-> r.ret]
           /\ ref' = e.ref
           /\ refRet' = e.ret
    /\ pre' = Snapshot
    /\ scen' = ScenOff
    /\ UNCHANGED capacity_
    /\ UNCHANGED env

Clear ==
    /\ Ready
    /\ LET r == clear(items_, lookup_)
       IN  /\ items_' = r.items_
           /\ lookup_' = r.lookup_
    /\ last' = [op |-> "clear", key |-> 0, value |-> 0, ret |-> 0]
    /\ pre' = Snapshot
    /\ ref' = EmptyMap
    /\ refRet' = 0
    /\ scen' = ScenStart
    /\ UNCHANGED <<capacity_, ub>>
    /\ UNCHANGED env

\* the caller has used the returned value and goes on to its next call
Return ==
    /\ last.op # "none"
    /\ last' = NoCall
    /\ pre' = NoSnapshot
    /\ refRet' = 0
    /\ UNCHANGED <<capacity_, items_, lookup_, ub, ref, scen>>
    /\ UNCHANGED env

Next ==
    \/ \E key \in Keys : Get(key)
    \/ \E key \in Keys, value \in Values : Put(key, value)
    \/ \E key \in Keys : Contains(key)
    \/ Size
    \/ Empty
    \/ Capacity
    \/ \E key \in Keys : Erase(key)
    \/ Clear
    \/ Return

Spec == Init /\ [][Next]_vars

\* ---- construction --------------------------------------------------------

\* the arguments tried for the constructor
CtorArgs == 0..MaxCap

\* before the declaration of the cache is reached there is no object
InitCtor ==
    /\ capacity_ = 0
    /\ items_ = <<>>
    /\ lookup_ = EmptyMap
    /\ ub = FALSE
    /\ last = NoCall
    /\ pre = NoSnapshot
    /\ ref = EmptyMap
    /\ refRet = 0
    /\ scen = ScenStart
    /\ obj = "none"
    /\ other = NoOther
    /\ pc = "idle"

\* LRUCache<Key, Value> cache(cap): the object exists when the constructor
\* returns, and never exists when it throws
Construct(cap) ==
    /\ obj = "none"
    /\ LET r == LRUCache(cap)
       IN  IF r.threw
           THEN /\ obj' = "invalid_argument"
                /\ UNCHANGED <<capacity_, items_, lookup_>>
           ELSE /\ obj' = "live"
                /\ capacity_' = r.capacity_
                /\ items_' = r.items_
                /\ lookup_' = r.lookup_
    /\ last' = [op |-> "ctor", key |-> 0, value |-> cap, ret |-> 0]
    /\ UNCHANGED <<ub, pre, ref, refRet, scen, other, pc>>

NextCtor ==
    \/ \E cap \in CtorArgs : Construct(cap)
    \/ Next

SpecCtor == InitCtor /\ [][NextCtor]_vars

\* ---- a second instance, and the compiler-generated copy -------------------

\* the nodes of the second instance are allocated apart from those of the
\* first: they carry the negated names
OtherName(it) == 0 - it

OtherAddrs(items, key) ==
    IF OtherName(key) \notin LiveIts(items)
    THEN {OtherName(key)}
    ELSE {OtherName(h) : h \in Handles} \ LiveIts(items)

\* the implicit copy constructor and copy assignment: each member is copied.
\* The copy of the list holds new nodes with the same pairs in the same
\* order; the copy of the map holds the same iterators, which still name the
\* nodes of the source's list
copy(cap, items, lookup) ==
    [capacity_ |-> cap,
     items_ |-> [i \in DOMAIN items |->
                    [items[i] EXCEPT !.it = OtherName(items[i].it)]],
     lookup_ |-> lookup]

\* LRUCache<Key, Value> b(cap), cap >= 1
ConstructOther(cap) ==
    /\ Ready
    /\ other.state = "none"
    /\ LET r == LRUCache(cap)
       IN  other' = [state |-> "live", arg |-> cap, capacity_ |-> r.capacity_,
                     items_ |-> r.items_, lookup_ |-> r.lookup_]
    /\ UNCHANGED <<capacity_, items_, lookup_, ub, last, pre, ref, refRet,
                   scen, obj, pc>>

\* LRUCache<Key, Value> b(a)
CopyConstruct ==
    /\ Ready
    /\ other.state = "none"
    /\ LET r == copy(capacity_, items_, lookup_)
       IN  other' = [state |-> "live", arg |-> capacity_,
                     capacity_ |-> r.capacity_,
                     items_ |-> r.items_, lookup_ |-> r.lookup_]
    /\ UNCHANGED <<capacity_, items_, lookup_, ub, last, pre, ref, refRet,
                   scen, obj, pc>>

\* b = a
CopyAssign ==
    /\ Ready
    /\ other.state = "live"
    /\ LET r == copy(capacity_, items_, lookup_)
       IN  other' = [other EXCEPT !.capacity_ = r.capacity_,
                                  !.items_ = r.items_,
                                  !.lookup_ = r.lookup_]
    /\ UNCHANGED <<capacity_, items_, lookup_, ub, last, pre, ref, refRet,
                   scen, obj, pc>>

\* the values put into the second instance (its positions are what matters)
OtherValues == {NumVals}

\* the member functions called on the second instance; a call that uses an
\* iterator into a list other than its own items_ is undefined
OtherSet(r) ==
    IF r.ub THEN other
    ELSE [other EXCEPT !.items_ = r.items_, !.lookup_ = r.lookup_]

\* b.get(key)
OtherGet(key) ==
    /\ Ready
    /\ other.state = "live"
    /\ LET r == get(other.items_, other.lookup_, key)
       IN  /\ other' = OtherSet(r)
           /\ ub' = r.ub
    /\ UNCHANGED <<capacity_, items_, lookup_, last, pre, ref, refRet, scen,
                   obj, pc>>

\* b.put(key, value)
OtherPut(key, value) ==
    /\ Ready
    /\ other.state = "live"
    /\ IF Found(other.lookup_, key)
       THEN LET r == put_existing(other.items_, other.lookup_, key, value)
            IN  /\ other' = OtherSet(r)
                /\ ub' = r.ub
       ELSE LET m == put_make_room(other.capacity_, other.items_, other.lookup_)
            IN  IF m.ub
                THEN /\ other' = other
                     /\ ub' = TRUE
                ELSE \E addr \in OtherAddrs(m.items_, key) :
                        LET r == insert_front(m.items_, m.lookup_, key, value, addr)
                        IN  /\ other' = [other EXCEPT !.items_ = r.items_,
                                                      !.lookup_ = r.lookup_]
                            /\ ub' = FALSE
    /\ UNCHANGED <<capacity_, items_, lookup_, last, pre, ref, refRet, scen,
                   obj, pc>>

\* b.erase(key)
OtherErase(key) ==
    /\ Ready
    /\ other.state = "live"
    /\ LET r == erase(other.items_, other.lookup_, key)
       IN  /\ other' = OtherSet(r)
           /\ ub' = r.ub
    /\ UNCHANGED <<capacity_, items_, lookup_, last, pre, ref, refRet, scen,
                   obj, pc>>

\* the calls on the first instance in the program with two caches: it is
\* filled, read and emptied before the second instance is made
FirstPut(key, value) == other.state = "none" /\ Put(key, value)
FirstGet(key) == other.state = "none" /\ Get(key)
FirstErase(key) == other.state = "none" /\ Erase(key)

\* two caches in one program: the second is constructed on its own or as a
\* copy of the first, assigned from the first, and used
NextCopy ==
    \/ \E key \in Keys, value \in Values : FirstPut(key, value)
    \/ \E key \in Keys : FirstGet(key)
    \/ \E key \in Keys : FirstErase(key)
    \/ Return
    \/ \E cap \in Capacities : ConstructOther(cap)
    \/ CopyConstruct
    \/ CopyAssign
    \/ \E key \in Keys : OtherGet(key)
    \/ \E key \in Keys, value \in OtherValues : OtherPut(key, value)
    \/ \E key \in Keys : OtherErase(key)

SpecCopy == Init /\ [][NextCopy]_vars

\* ---- put, statement by statement, with allocations that can fail ----------

\* lookup_.erase(lru.first), lru being items_.back()
erase_lru_from_index(items, lookup) == MapErase(lookup, items[Len(items)].first)

\* items_.pop_back()
pop_back(items) == SubSeq(items, 1, Len(items) - 1)

\* items_.emplace_front(key, value), addr being the name of the new node
emplace_front(items, key, value, addr) ==
    <<[it |-> addr, first |-> key, second |-> value]>> \o items

\* lookup_[key] = items_.begin()
record_front(items, lookup, key) == MapSet(lookup, key, items[1].it)

\* what one statement of put leaves alone besides the data members
StepFrame == UNCHANGED <<capacity_, last, pre, ref, refRet, scen, obj, other>>

\* put is entered: lookup_.find(key), then the branch is chosen
PutBegin(key, value) ==
    /\ Ready
    /\ last' = [op |-> "put", key |-> key, value |-> value, ret |-> 0]
    /\ pre' = Snapshot
    /\ pc' = IF Found(lookup_, key) THEN "update"
             ELSE IF at_capacity(items_, capacity_) THEN "erase_lru"
             ELSE "emplace"
    /\ UNCHANGED <<capacity_, items_, lookup_, ub, ref, refRet, scen, obj,
                   other>>

\* the branch for a present key: assign the value, move to the front, return
PutUpdate ==
    /\ pc = "update"
    /\ LET r == put_existing(items_, lookup_, last.key, last.value)
       IN  /\ items_' = r.items_
           /\ lookup_' = r.lookup_
           /\ ub' = r.ub
    /\ pc' = "done"
    /\ StepFrame

PutEraseLru ==
    /\ pc = "erase_lru"
    /\ IF Len(items_) = 0
       THEN ub' = TRUE /\ UNCHANGED lookup_
       ELSE ub' = ub /\ lookup_' = erase_lru_from_index(items_, lookup_)
    /\ pc' = "pop_back"
    /\ UNCHANGED items_
    /\ StepFrame

PutPopBack ==
    /\ pc = "pop_back"
    /\ ~ub
    /\ items_' = pop_back(items_)
    /\ pc' = "emplace"
    /\ UNCHANGED <<lookup_, ub>>
    /\ StepFrame

PutEmplace ==
    /\ pc = "emplace"
    /\ \E addr \in FreeAddrs(items_, last.key) :
          items_' = emplace_front(items_, last.key, last.value, addr)
    /\ pc' = "record"
    /\ UNCHANGED <<lookup_, ub>>
    /\ StepFrame

\* the allocation of the list node fails: emplace_front throws std::bad_alloc
\* and has no effect, put is left by the exception
PutEmplaceThrows ==
    /\ pc = "emplace"
    /\ pc' = "thrown"
    /\ UNCHANGED <<items_, lookup_, ub>>
    /\ StepFrame

PutRecord ==
    /\ pc = "record"
    /\ lookup_' = record_front(items_, lookup_, last.key)
    /\ pc' = "done"
    /\ UNCHANGED <<items_, ub>>
    /\ StepFrame

\* the allocation of the map node fails: operator[] throws std::bad_alloc and
\* has no effect, put is left by the exception
PutRecordThrows ==
    /\ pc = "record"
    /\ pc' = "thrown"
    /\ UNCHANGED <<items_, lookup_, ub>>
    /\ StepFrame

\* put has returned, the caller goes on. (An exception leaves put and the
\* caller; the run is followed up to the state the exception leaves behind.)
PutEnd ==
    /\ pc = "done"
    /\ pc' = "idle"
    /\ last' = NoCall
    /\ pre' = NoSnapshot
    /\ UNCHANGED <<capacity_, items_, lookup_, ub, ref, refRet, scen, obj,
                   other>>

\* the constructor has returned, the caller goes on
CtorEnd == pc = "idle" /\ Return

NextSteps ==
    \/ CtorEnd
    \/ \E key \in Keys, value \in Values : PutBegin(key, value)
    \/ PutUpdate
    \/ PutEraseLru
    \/ PutPopBack
    \/ PutEmplace
    \/ PutEmplaceThrows
    \/ PutRecord
    \/ PutRecordThrows
    \/ PutEnd

SpecSteps == Init /\ [][NextSteps]_vars

\* ---- views of the state used by the properties ---------------------------

\* the values stored for key in the sequence (one value when key is present,
\* none when it is absent)
ValuesOf(items, key) ==
    {items[i].second : i \in {j \in DOMAIN items : items[j].first = key}}

\* the nodes of the other keys, in sequence order, with their names
Others(items, key) == SelectSeq(items, LAMBDA n : n.first # key)

\* the key at the back of the sequence: the victim of an eviction
BackKey(items) == items[Len(items)].first

\* the last call was a put of a key that was absent / present
PutAbsent == last.op = "put" /\ ~Found(pre.lookup_, last.key)
PutPresent == last.op = "put" /\ Found(pre.lookup_, last.key)
\* the last call was a put that had to evict
PutEvicting == PutAbsent /\ Len(pre.items_) >= 1 /\ Len(pre.items_) = capacity_
GetHit == last.op = "get" /\ Found(pre.lookup_, last.key)
GetMiss == last.op = "get" /\ ~Found(pre.lookup_, last.key)
\* the put that has just returned was the last call of the scenario
Overflowed == last.op = "put" /\ scen.stage = "overflow"
Promoted == last.op = "put" /\ scen.stage = "promoted"

\* ---- C1 ------------------------------------------------------------------
\* C1: in every reachable state size() <= capacity(): the recency sequence
\* (and the index) never hold more than capacity_ entries.
C1_CapacityInvariant ==
    /\ size(items_) <= capacity(capacity_)
    /\ Cardinality(DOMAIN lookup_) <= capacity_

\* a put of a new key into a full cache has happened, and the cache is full
C1_Witness == PutEvicting /\ Len(items_) = capacity_ /\ capacity_ = 3

\* ---- C2 ------------------------------------------------------------------
\* C2: a put of an absent key into a full cache removes exactly the entry at
\* the back of the sequence (the key the reference cache finds least recently
\* touched), from the index and from the sequence; every other key keeps its
\* value; the new key is present with the value put; the cache is still
\* full.  capacity()+1 puts of distinct keys into an empty cache evict
\* exactly the first of them.
C2_EvictsLRU ==
    /\ PutEvicting =>
        LET victim == BackKey(pre.items_)
            kept == (SeqKeys(pre.items_) \ {victim}) \cup {last.key}
        IN  /\ SeqKeys(items_) = kept
            /\ DOMAIN lookup_ = kept
            /\ victim \notin DOMAIN ref
            /\ \A k \in SeqKeys(pre.items_) \ {victim} :
                  ValuesOf(items_, k) = ValuesOf(pre.items_, k)
            /\ ValuesOf(items_, last.key) = {last.value}
            /\ size(items_) = capacity(capacity_)
            /\ Len(items_) = Len(pre.items_)
    /\ Overflowed =>
        /\ PutEvicting
        /\ SeqKeys(items_) = (SeqKeys(pre.items_) \ {scen.oldest}) \cup {last.key}
        /\ ~contains(lookup_, scen.oldest)

\* capacity+1 distinct keys were put into an empty cache of capacity >= 2
C2_Witness == Overflowed /\ capacity_ = 3 /\ PutEvicting

\* ---- C3 ------------------------------------------------------------------
\* C3: the sequence lists the present keys in strictly decreasing order of
\* their last touch, and the cache agrees with the reference cache (stamp of
\* the last touch per key, put and successful get stamp, eviction removes the
\* minimum stamp) on the present keys, their values and every returned value.
C3_ExactRecency ==
    /\ SeqKeys(items_) = DOMAIN ref
    /\ \A i, j \in DOMAIN items_ :
          i < j => /\ items_[i].first \in DOMAIN ref
                   /\ items_[j].first \in DOMAIN ref
                   /\ ref[items_[i].first].stamp > ref[items_[j].first].stamp
    /\ \A k \in DOMAIN ref : ValuesOf(items_, k) = {ref[k].val}
    /\ last.ret = refRet
    /\ size(items_) = Cardinality(DOMAIN ref)

\* a successful get moved a key from the back of a three-entry sequence
C3_Witness ==
    /\ GetHit
    /\ Len(pre.items_) = 3
    /\ BackKey(pre.items_) = last.key

\* ---- C4 ------------------------------------------------------------------
\* C4 as stated: for every capacity, after filling the empty cache, a get of
\* the first-inserted key and a put of one new key, the first-inserted key is
\* still present.
C4_Original ==
    Promoted =>
        /\ scen.oldest \in SeqKeys(items_)
        /\ contains(lookup_, scen.oldest)

\* C4 amended: the same for every capacity >= 2, where the evicted key is the
\* one at the back after the get, a key other than the first-inserted one;
\* with capacity 1 the first-inserted key is the only key and is evicted.
C4_RecencyPromotion ==
    Promoted =>
        /\ PutEvicting
        /\ capacity_ >= 2 =>
              /\ scen.oldest \in SeqKeys(items_)
              /\ contains(lookup_, scen.oldest)
              /\ pre.items_[1].first = scen.oldest
              /\ BackKey(pre.items_) # scen.oldest
              /\ SeqKeys(items_) =
                    (SeqKeys(pre.items_) \ {BackKey(pre.items_)}) \cup {last.key}
        /\ capacity_ = 1 => ~contains(lookup_, scen.oldest)

\* the scenario was run to its end in a cache of capacity 3
C4_Witness == Promoted /\ capacity_ = 3 /\ PutEvicting

\* ---- C5 ------------------------------------------------------------------
\* C5: a put of a present key replaces its value, moves it to the front,
\* keeps the size and the set of keys (also in a full cache) and leaves the
\* other nodes, their values and their order as they were; the key is then
\* not the victim of a following eviction when another key is present.
C5_UpdateState ==
    PutPresent =>
        /\ Len(items_) >= 1
        /\ items_[1].first = last.key
        /\ items_[1].second = last.value
        /\ ValuesOf(items_, last.key) = {last.value}
        /\ size(items_) = size(pre.items_)
        /\ SeqKeys(items_) = SeqKeys(pre.items_)
        /\ lookup_ = pre.lookup_
        /\ Others(items_, last.key) = Others(pre.items_, last.key)
        /\ Len(items_) >= 2 => BackKey(items_) # last.key

\* the key at the front, where the update has put the key, is kept by the
\* next call when that is a put of a new key and another key is present
C5_NextEviction ==
    (/\ last'.op = "put"
     /\ ~Found(lookup_, last'.key)
     /\ Len(items_) >= 2)
        => items_[1].first \in SeqKeys(items_')

C5_UpdateExisting == []C5_UpdateState /\ [][C5_NextEviction]_vars

\* the least recently used key of a full three-entry cache was put again
C5_Witness ==
    /\ PutPresent
    /\ Len(pre.items_) = 3
    /\ capacity_ = 3
    /\ BackKey(pre.items_) = last.key
    /\ ValuesOf(pre.items_, last.key) # {last.value}

\* ---- C6 ------------------------------------------------------------------
\* C6: a get of a present key returns the value of the most recent put of the
\* key (the value the reference cache holds for it, which only a put of the
\* key sets), moves the key's node to the front and changes nothing else: the keys,
\* the size, every stored value, the index and the other nodes with their
\* order are as before.
C6_SuccessfulLookup ==
    GetHit =>
        /\ has_value(last.ret)
        /\ last.ret = refRet
        /\ {last.ret[1]} = ValuesOf(pre.items_, last.key)
        /\ Len(items_) >= 1
        /\ items_[1].first = last.key
        /\ SeqKeys(items_) = SeqKeys(pre.items_)
        /\ size(items_) = size(pre.items_)
        /\ lookup_ = pre.lookup_
        /\ \A k \in Keys : ValuesOf(items_, k) = ValuesOf(pre.items_, k)
        /\ Others(items_, last.key) = Others(pre.items_, last.key)

\* a get hit the back key of a three-entry sequence whose front holds
\* another value
C6_Witness ==
    /\ GetHit
    /\ Len(pre.items_) = 3
    /\ BackKey(pre.items_) = last.key
    /\ pre.items_[1].second # last.ret[1]

\* ---- C7 ------------------------------------------------------------------
\* C7: a get of an absent key returns the empty optional and leaves the
\* sequence, the index and the capacity as they were.
C7_MissStep ==
    (last'.op = "get" /\ ~Found(lookup_, last'.key) /\ ~ub) =>
        /\ last'.ret = nullopt
        /\ items_' = items_
        /\ lookup_' = lookup_
        /\ capacity_' = capacity_
        /\ ub' = ub

C7_FailedLookupNoOp == [][C7_MissStep]_vars

\* a get missed in a cache that holds two entries
C7_Witness == GetMiss /\ last.ret = nullopt /\ Len(items_) = 2

\* ---- C8 ------------------------------------------------------------------
\* C8: contains(k) returns true iff k is present and changes nothing, so a
\* key at the back stays at the back, and the next call, when it is a put of
\* a new key into the full cache, evicts the back key and no other; a
\* successful get(k) in a cache of two or more entries leaves k off the back.
C8_ContainsStep ==
    (last'.op = "contains" /\ ~ub) =>
        /\ last'.ret = (last'.key \in SeqKeys(items_))
        /\ last'.ret = (last'.key \in DOMAIN lookup_)
        /\ items_' = items_
        /\ lookup_' = lookup_
        /\ capacity_' = capacity_
        /\ ub' = ub

C8_NoProtection ==
    (/\ last'.op = "put"
     /\ ~Found(lookup_, last'.key)
     /\ Len(items_) >= 1
     /\ Len(items_) = capacity_)
        => SeqKeys(items_) \ SeqKeys(items_') = {BackKey(items_)}

C8_GetProtects ==
    (GetHit /\ Len(items_) >= 2) => BackKey(items_) # last.key

C9_ObservableBijection ==
    \A k \in Keys :
        contains(lookup_, k) <=>
            (LET r == get(items_, lookup_, k)
             IN  ~r.ub /\ has_value(r.ret))

\* a key has just been evicted while other keys stay
C9_Witness == PutEvicting /\ capacity_ >= 2 /\ Len(items_) = capacity_

\* ---- C10 -----------------------------------------------------------------
\* C10: erase of a present key returns true, removes the key from the index
\* and the sequence, makes the size one less and leaves the other nodes and
\* their order as they were; erase of an absent key returns false and
\* changes nothing; so an erase of the same key right after a successful one
\* returns false.
C10_EraseState ==
    last.op = "erase" =>
        IF Found(pre.lookup_, last.key)
        THEN /\ last.ret = TRUE
             /\ last.key \notin SeqKeys(items_)
             /\ ~contains(lookup_, last.key)
             /\ size(items_) = size(pre.items_) - 1
             /\ items_ = Others(pre.items_, last.key)
             /\ lookup_ = MapErase(pre.lookup_, last.key)
        ELSE /\ last.ret = FALSE
             /\ items_ = pre.items_
             /\ lookup_ = pre.lookup_

\* the key a successful erase has removed is absent for the next call, and
\* an erase of an absent key returns false
C10_EraseTwice ==
    (last'.op = "erase" /\ ~Found(lookup_, last'.key)) => last'.ret = FALSE

C10_EraseFrame ==
    last'.op = "erase" => capacity_' = capacity_ /\ ub' = ub

C10_Erase == []C10_EraseState /\ [][C10_EraseTwice /\ C10_EraseFrame]_vars

\* the middle key of a three-entry sequence was erased
C10_Witness ==
    /\ last.op = "erase"
    /\ last.ret = TRUE
    /\ Len(pre.items_) = 3
    /\ pre.items_[2].first = last.key

\* ---- C11 -----------------------------------------------------------------

\* C11: when clear() has returned, size() is 0, empty() is true, every key is
\* absent for contains and for get, capacity() is what it was before the
\* call, and the data members are exactly those the constructor produces for
\* that capacity, with nothing left over in the sequence, in the index or in
\* the recency order, so every later call behaves as on a fresh cache.
C11_ClearResets ==
    last.op = "clear" =>
        /\ ~ub
        /\ size(items_) = 0
        /\ empty(items_)
        /\ \A k \in Keys :
              /\ ~contains(lookup_, k)
              /\ get(items_, lookup_, k).ret = nullopt
              /\ ~get(items_, lookup_, k).ub
        /\ capacity(capacity_) = capacity(pre.capacity_)
        /\ LET fresh == LRUCache(pre.capacity_)
           IN  /\ ~fresh.threw
               /\ capacity_ = fresh.capacity_
               /\ items_ = fresh.items_
               /\ lookup_ = fresh.lookup_
        /\ ref = EmptyMap

\* a full cache of three entries has been cleared
C11_Witness == last.op = "clear" /\ Len(pre.items_) = 3 /\ capacity_ = 3

\* ---- C12 -----------------------------------------------------------------

\* C12: the constructor called with capacity 0 throws std::invalid_argument
\* and leaves no object: no member function is ever called and nothing is
\* stored. Called with any c >= 1 it yields a cache whose capacity() is c,
\* whose size() is 0 and whose empty() is true.
C12_Construction ==
    /\ last.op = "ctor" =>
          IF last.value = 0
          THEN obj = "invalid_argument"
          ELSE /\ obj = "live"
               /\ ~ub
               /\ capacity(capacity_) = last.value
               /\ size(items_) = 0
               /\ empty(items_)
               /\ \A k \in Keys : ~contains(lookup_, k)
    /\ obj = "invalid_argument" =>
          /\ last.op \in {"ctor", "none"}
          /\ items_ = <<>> /\ lookup_ = EmptyMap /\ ~ub
    /\ obj = "live" => capacity_ \in Capacities

\* the constructor has been called with 0 and has thrown
C12_Witness ==
    last.op = "ctor" /\ last.value = 0 /\ obj = "invalid_argument"

\* ---- C13 -----------------------------------------------------------------

\* C13: for the whole lifetime of a constructed instance capacity() is at
\* least 1 and equals the value its constructor was given; no operation
\* applied to the instance changes it. Stated for both instances of the
\* program: the first is only ever called through its member functions, the
\* second is also the target of the compiler-generated copy assignment.
C13_Original ==
    /\ obj = "live" => capacity(capacity_) >= 1
    /\ other.state = "live" =>
          /\ capacity(other.capacity_) >= 1
          /\ capacity(other.capacity_) = other.arg

\* ---- C17 -----------------------------------------------------------------

\* C17: once the second instance has been copy-constructed or copy-assigned
\* from the first, every position in its index refers to a node of its own
\* sequence holding that key, and no call on either instance uses a node of
\* the other (no call is undefined).
C17_Original ==
    other.state = "live" =>
        /\ ~ub
        /\ \A k \in DOMAIN other.lookup_ :
              /\ ValidIt(other.items_, other.lookup_[k])
              /\ other.items_[PosOf(other.items_, other.lookup_[k])].first = k
        /\ \A k \in DOMAIN lookup_ :
              /\ ValidIt(items_, lookup_[k])
              /\ items_[PosOf(items_, lookup_[k])].first = k

\* ---- C14 -----------------------------------------------------------------

\* C14: a put(k, v) of an absent k while size() < capacity() removes no key;
\* size() grows by exactly one; k is at the most-recently-used position with
\* value v; the entries that were there keep their values, their nodes and
\* their order behind k, and the index gains k and changes nothing else.
C14_InsertWithRoom ==
    (PutAbsent /\ size(pre.items_) < capacity(pre.capacity_)) =>
        /\ ~ub
        /\ SeqKeys(items_) = SeqKeys(pre.items_) \cup {last.key}
        /\ size(items_) = size(pre.items_) + 1
        /\ items_[1].first = last.key
        /\ items_[1].second = last.value
        /\ Tail(items_) = pre.items_
        /\ DOMAIN lookup_ = DOMAIN pre.lookup_ \cup {last.key}
        /\ lookup_[last.key] = items_[1].it
        /\ \A j \in DOMAIN pre.lookup_ : lookup_[j] = pre.lookup_[j]
        /\ get(items_, lookup_, last.key).ret = Some(last.value)

\* a third key has been put into a cache of capacity 3 holding two
C14_Witness ==
    PutAbsent /\ Len(pre.items_) = 2 /\ capacity_ = 3 /\ Len(items_) = 3

\* ---- C15 -----------------------------------------------------------------

\* the index and the sequence hold the same keys, each once, and the index
\* stores for each key the node of the sequence that holds this key
IndexConsistent(items, lookup) ==
    /\ DOMAIN lookup = SeqKeys(items)
    /\ Cardinality(SeqKeys(items)) = Len(items)
    /\ Cardinality(LiveIts(items)) = Len(items)
    /\ \A k \in DOMAIN lookup :
          /\ ValidIt(items, lookup[k])
          /\ items[PosOf(items, lookup[k])].first = k

\* C15: after every operation the index and the sequence hold the same keys,
\* no key is twice in the sequence, and the position stored for k is a live
\* node of this cache's sequence holding k. A move to the front (a get that
\* hits, a put of a present key) leaves every stored position as it was, and
\* the nodes of the other keys where and what they were.
C15_IndexConsistency ==
    /\ ~ub
    /\ IndexConsistent(items_, lookup_)
    /\ (GetHit \/ PutPresent) =>
          /\ lookup_ = pre.lookup_
          /\ items_[1].it = pre.lookup_[last.key]
          /\ Others(items_, last.key) = Others(pre.items_, last.key)

\* a get has moved the node at the back of three to the front
C15_Witness ==
    /\ GetHit
    /\ Len(items_) = 3
    /\ last.key = BackKey(pre.items_)
    /\ items_[1].first = last.key

\* ---- C16 -----------------------------------------------------------------

\* one call, seen from where the caller makes it: which keys it may add to
\* and remove from the present ones
C16_Step ==
    /\ \A k \in Keys :
          /\ (~contains(lookup_, k) /\ contains(lookup_', k)) =>
                (last'.op = "put" /\ last'.key = k)
          /\ (contains(lookup_, k) /\ ~contains(lookup_', k)) =>
                \/ last'.op = "erase" /\ last'.key = k
                \/ last'.op = "clear"
                \/ /\ last'.op = "put"
                   /\ last'.key # k
                   /\ ~contains(lookup_, last'.key)
                   /\ size(items_) = capacity(capacity_)
                   /\ k = BackKey(items_)
          /\ (k \in SeqKeys(items_)) = contains(lookup_, k)
          /\ (k \in SeqKeys(items_')) = contains(lookup_', k)
    /\ last'.op \in {"get", "contains", "size", "empty", "capacity"} =>
          DOMAIN lookup_' = DOMAIN lookup_
    /\ (last'.op = "put" /\ contains(lookup_, last'.key)) =>
          DOMAIN lookup_' = DOMAIN lookup_
    /\ last'.op = "erase" =>
          DOMAIN lookup_' = DOMAIN lookup_ \ {last'.key}
    /\ last'.op = "none" => DOMAIN lookup_' = DOMAIN lookup_

\* C16: a key goes from absent to present only by a put of that key; it goes
\* from present to absent only by an erase of that key, by clear, or by being
\* the least recently used key when a different, absent key is put into a
\* full cache. get, contains, size, empty, capacity, a put of a present key
\* and an erase of another key leave the set of present keys as it was.
C16_PresenceTransitions == [][C16_Step]_vars

\* one put has made its key present and the least recently used key absent
C16_Witness ==
    /\ PutEvicting
    /\ capacity_ = 3
    /\ contains(lookup_, last.key)
    /\ ~contains(lookup_, BackKey(pre.items_))
    /\ DOMAIN lookup_ # DOMAIN pre.lookup_

\* ---- C18 -----------------------------------------------------------------

\* C18: a put either completes, and then the index and the sequence agree
\* and hold at most capacity() entries, or it has no effect. When a
\* statement of put fails after earlier ones have run, the cache is not left
\* with the least recently used key evicted and the new key not inserted,
\* nor with an entry in the sequence that the index does not hold.
C18_Original ==
    /\ pc = "thrown" =>
          /\ items_ = pre.items_
          /\ lookup_ = pre.lookup_
    /\ pc \in {"idle", "done", "thrown"} =>
          /\ ~ub
          /\ IndexConsistent(items_, lookup_)
          /\ size(items_) <= capacity(capacity_)

\* ---- C19 -----------------------------------------------------------------

\* the number of keys for which contains answers true
NumContained(lookup) == Cardinality({k \in Keys : contains(lookup, k)})

\* C19: size(), read from the sequence, equals the number of distinct keys
\* for which contains, read from the index, is true; empty() is true exactly
\* when size() is 0. The same holds of the values the calls return.
C19_SizeAgrees ==
    /\ size(items_) = NumContained(lookup_)
    /\ empty(items_) <=> (size(items_) = 0)
    /\ last.op = "size" => last.ret = NumContained(pre.lookup_)
    /\ last.op = "empty" => (last.ret <=> (NumContained(pre.lookup_) = 0))

\* size() has returned 2 for a cache of capacity 3
C19_Witness ==
    last.op = "size" /\ last.ret = 2 /\ capacity_ = 3 /\ ~empty(items_)

\* ---- C20 -----------------------------------------------------------------

\* the keys whose last touch (a put, or a get that found the key) came after
\* the last touch of k, by the stamps of the reference cache
TouchedAfter(r, k) == {j \in DOMAIN r \ {k} : r[j].stamp > r[k].stamp}

\* one put, seen from where the caller makes it
C20_Step ==
    last'.op = "put" =>
        /\ \A k \in DOMAIN lookup_ \ DOMAIN lookup_' :
              /\ k \in DOMAIN ref
              /\ DOMAIN lookup_ \ {k} \subseteq TouchedAfter(ref, k)
              /\ Cardinality(TouchedAfter(ref, k)) >= capacity(capacity_) - 1
              /\ Cardinality(DOMAIN lookup_ \ {k}) = capacity(capacity_) - 1
        /\ capacity(capacity_) = 1 =>
              /\ SeqKeys(items_') = {last'.key}
              /\ DOMAIN lookup_' = {last'.key}
              /\ (~contains(lookup_, last'.key) /\ ~empty(items_)) =>
                    ~contains(lookup_', BackKey(items_))

\* C20: a key is evicted by a put only when at least capacity() - 1 distinct
\* other keys have been touched after its own last touch, and at that moment
\* every one of the other capacity() - 1 present keys was touched more
\* recently than it. With capacity() 1 every put of a new key evicts the
\* resident key, and the cache holds exactly the key of the last put.
C20_MinimumRetention == [][C20_Step]_vars

\* a put has evicted from a full cache of three, after calls that are not
\* the fill-then-put order of the tests
C20_Witness ==
    /\ PutEvicting
    /\ capacity_ = 3
    /\ scen.stage = "off"
    /\ BackKey(pre.items_) \notin SeqKeys(items_)

====
